---- MODULE Spec2Model ----
(***************************************************************************)
(* InspireHEPClient (src/src/inspirehep_mcp/api_client.py): the request    *)
(* engine with its rate-limiter gate, TTL cache and lazily created HTTP    *)
(* session, as a state machine over cooperative asyncio tasks.             *)
(*                                                                         *)
(* Time is an integer clock `now`; an asyncio task runs atomically between *)
(* two suspension points (lock wait, rate-limit sleep, network call).      *)
(***************************************************************************)
EXTENDS Integers, Sequences, FiniteSets, TLC

\* ------------------------------------------------------------------------
\* Bounds of the model
\* ------------------------------------------------------------------------
NumCallers == 2        \* concurrent tasks sharing the client
MaxCalls == 3          \* total get/get_text calls started
MaxCacheCalls == 4     \* the same, in the cache specification
MaxTime == 4           \* the clock is free to advance up to here
MaxCacheTime == 7      \* the same, in the cache specification
MaxInvocations == 2    \* tool invocations started
MaxSessions == 2       \* sessions the client may create
RateInterval == 2      \* _rate_interval = 1 / requests_per_second, in ticks
CacheTtl == 5          \* cache_ttl, in ticks
CacheMaxSize == 2      \* cache_max_size

\* response.text[:500]
DetailsLimit == 500

Callers == 1..NumCallers

None == [t |-> "None"]

Min(a, b) == IF a < b THEN a ELSE b

\* ------------------------------------------------------------------------
\* Upstream bodies and headers
\* ------------------------------------------------------------------------
\* A body is a sequence of characters.
Text(n) == [i \in 1..n |-> IF i % 2 = 1 THEN "x" ELSE "y"]

BodyNull == <<"n", "u", "l", "l">>
BodyObj == <<"{", "}">>
BodyList == <<"[", "]">>
BodyHtml == <<"<", "p", ">">>
\* stands for a record whose metadata.references holds one resolvable recid
BodyRefs == <<"{", "r", "}">>

\* response.json(): the JSON texts among the bodies above parse, every
\* other body raises json.JSONDecodeError (a ValueError).
ParseJson(body) ==
  IF body = BodyNull THEN [ok |-> TRUE, value |-> None]
  ELSE IF body = BodyObj THEN [ok |-> TRUE, value |-> [t |-> "dict"]]
  ELSE IF body = BodyRefs THEN [ok |-> TRUE, value |-> [t |-> "dict", refs |-> 1]]
  ELSE IF body = BodyList THEN [ok |-> TRUE, value |-> [t |-> "list"]]
  ELSE [ok |-> FALSE, value |-> None]

\* float(retry_after) on the header strings of the model.
ParseFloat(s) ==
  IF s = "5" THEN [ok |-> TRUE, value |-> 5]
  ELSE IF s = "0" THEN [ok |-> TRUE, value |-> 0]
  ELSE [ok |-> FALSE, value |-> 0]

\* Retry-After header values: absent, seconds, empty, an HTTP-date.
HttpDate == "Wed, 21 Oct 2015 07:28:00 GMT"

RetryAfterHeaders == {None, [t |-> "str", s |-> "5"], [t |-> "str", s |-> ""],
                      [t |-> "str", s |-> HttpDate]}

Resp(status, retry, body) ==
  [t |-> "response", status_code |-> status, retry_after |-> retry, text |-> body]

\* What the transport can hand back for one request.
Outcomes ==
  {[t |-> "TimeoutException"], [t |-> "HTTPError"]}
  \cup {Resp(200, None, b) : b \in {BodyNull, BodyObj, BodyHtml}}
  \cup {Resp(302, None, <<>>)}
  \cup {Resp(404, None, BodyHtml)}
  \cup {Resp(429, h, <<>>) : h \in RetryAfterHeaders}
  \cup {Resp(500, None, Text(n)) : n \in {0, DetailsLimit, DetailsLimit + 1}}
  \cup {Resp(403, None, BodyHtml)}

\* the outcomes the concurrent specification draws from
CoreOutcomes ==
  {[t |-> "TimeoutException"], Resp(200, None, BodyObj)}

\* ------------------------------------------------------------------------
\* Requests and cache keys
\* ------------------------------------------------------------------------
\* params is a dict: a sequence of <<name, value>> pairs in insertion order.
\* Rank is the order of the names as Python strings.
Rank(name) ==
  CASE name = "a" -> 1
    [] name = "b" -> 2
    [] name = "fields" -> 3
    [] name = "format" -> 4
    [] name = "page" -> 5
    [] name = "q" -> 6
    [] name = "size" -> 7
    [] name = "sort" -> 8

RECURSIVE Insert(_, _)
Insert(pair, sorted) ==
  IF sorted = <<>> THEN <<pair>>
  ELSE IF Rank(pair[1]) <= Rank(Head(sorted)[1]) THEN <<pair>> \o sorted
  ELSE <<Head(sorted)>> \o Insert(pair, Tail(sorted))

\* sorted((params or {}).items())
RECURSIVE SortedItems(_)
SortedItems(params) ==
  IF params = <<>> THEN <<>>
  ELSE Insert(Head(params), SortedItems(Tail(params)))

ParamsAB == << <<"a", 1>>, <<"b", 2>> >>
ParamsBA == << <<"b", 2>>, <<"a", 1>> >>

Paths == {"/p", "/q"}

\* the (path, params) arguments the callers use
Requests ==
  {[path |-> "/p", params |-> <<>>],
   [path |-> "/q", params |-> ParamsAB],
   [path |-> "/q", params |-> ParamsBA]}

\* the same with one insertion order for each dict
PlainRequests ==
  {[path |-> "/p", params |-> <<>>],
   [path |-> "/q", params |-> ParamsAB]}

\* a key that keeps the params in the order the caller gave them
CacheKeyUnsorted(prefix, path, params) == <<prefix, path, params>>

\* f"{method}:{path}:{sorted((params or {}).items())}" and
\* f"GET_TEXT:{path}:{sorted((params or {}).items())}"
CacheKey(prefix, path, params) == <<prefix, path, SortedItems(params)>>

\* ------------------------------------------------------------------------
\* TTLCache
\* ------------------------------------------------------------------------
\* the cache: entries in insertion order, the hit/miss counters, and a
\* count of the capacity evictions so far (bookkeeping of the model)
EmptyCache == [entries |-> <<>>, hits |-> 0, misses |-> 0, evictions |-> 0]

CacheIndex(entries, key) ==
  IF \E i \in 1..Len(entries) : entries[i].key = key
  THEN CHOOSE i \in 1..Len(entries) : entries[i].key = key
  ELSE 0

RemoveAt(seq, i) == SubSeq(seq, 1, i - 1) \o SubSeq(seq, i + 1, Len(seq))

\* live: present and now < expires_at
CacheLive(ch, key, t) ==
  LET i == CacheIndex(ch.entries, key)
  IN i # 0 /\ t < ch.entries[i].expires_at

\* a get that still returns an entry at the instant it expires
CacheGetInclusive(ch, key, t, discard) ==
  LET i == CacheIndex(ch.entries, key)
  IN IF i # 0 /\ t <= ch.entries[i].expires_at
     THEN [value |-> ch.entries[i].value,
           cache |-> [ch EXCEPT !.hits = @ + 1]]
     ELSE [value |-> None,
           cache |-> [ch EXCEPT !.misses = @ + 1,
                                !.entries = IF i # 0 /\ discard
                                            THEN RemoveAt(@, i) ELSE @]]

\* a get that moves the entry it returns to the young end (access order)
CacheGetLru(ch, key, t, discard) ==
  LET i == CacheIndex(ch.entries, key)
  IN IF i # 0 /\ t < ch.entries[i].expires_at
     THEN [value |-> ch.entries[i].value,
           cache |-> [ch EXCEPT !.hits = @ + 1,
                                !.entries = Append(RemoveAt(@, i), ch.entries[i])]]
     ELSE [value |-> None,
           cache |-> [ch EXCEPT !.misses = @ + 1,
                                !.entries = IF i # 0 /\ discard
                                            THEN RemoveAt(@, i) ELSE @]]

\* get(key) at time t: the value of a live entry, else None (absent).  An
\* expired entry may be discarded by the read (discard) or left in place.
CacheGet(ch, key, t, discard) ==
  LET i == CacheIndex(ch.entries, key)
  IN IF i # 0 /\ t < ch.entries[i].expires_at
     THEN [value |-> ch.entries[i].value,
           cache |-> [ch EXCEPT !.hits = @ + 1]]
     ELSE [value |-> None,
           cache |-> [ch EXCEPT !.misses = @ + 1,
                                !.entries = IF i # 0 /\ discard
                                            THEN RemoveAt(@, i) ELSE @]]

\* a set that leaves the entry of a key it already holds as it is
CacheSetKeepFirst(ch, key, value, t) ==
  LET i == CacheIndex(ch.entries, key)
      e == [key |-> key, value |-> value, expires_at |-> t + CacheTtl]
  IN IF i # 0
     THEN ch
     ELSE IF Len(ch.entries) >= CacheMaxSize
          THEN [ch EXCEPT !.entries = Append(Tail(@), e), !.evictions = @ + 1]
          ELSE [ch EXCEPT !.entries = Append(@, e)]

\* a set that never evicts
CacheSetNoEvict(ch, key, value, t) ==
  LET i == CacheIndex(ch.entries, key)
      e == [key |-> key, value |-> value, expires_at |-> t + CacheTtl]
  IN IF i # 0
     THEN [ch EXCEPT !.entries[i] = e]
     ELSE [ch EXCEPT !.entries = Append(@, e)]

\* set(key, value) at time t: overwrite in place, or append after evicting
\* the oldest-inserted entry when the cache is full.
CacheSet(ch, key, value, t) ==
  LET i == CacheIndex(ch.entries, key)
      e == [key |-> key, value |-> value, expires_at |-> t + CacheTtl]
  IN IF i # 0
     THEN [ch EXCEPT !.entries[i] = e]
     ELSE IF Len(ch.entries) >= CacheMaxSize
          THEN [ch EXCEPT !.entries = Append(Tail(@), e), !.evictions = @ + 1]
          ELSE [ch EXCEPT !.entries = Append(@, e)]

\* ------------------------------------------------------------------------
\* Session lifecycle
\* ------------------------------------------------------------------------
\* sessions[i] is the is_closed flag of the i-th httpx.AsyncClient this
\* client created; a handle is an index into sessions, 0 is None.
NoClient == 0

IsClosed(ss, cl) == ss[cl]

\* _get_client that looks at None only, not at is_closed
GetClientNoClosedCheck(cl, ss) ==
  IF cl = NoClient
  THEN [client |-> Len(ss) + 1, sessions |-> Append(ss, FALSE)]
  ELSE [client |-> cl, sessions |-> ss]

\* _get_client that creates a session on every call
GetClientAlwaysNew(cl, ss) ==
  [client |-> Len(ss) + 1, sessions |-> Append(ss, FALSE)]

\* _get_client
GetClient(cl, ss) ==
  IF cl = NoClient \/ IsClosed(ss, cl)
  THEN [client |-> Len(ss) + 1, sessions |-> Append(ss, FALSE)]
  ELSE [client |-> cl, sessions |-> ss]

\* httpx.AsyncClient.aclose on a handle; on None the attribute lookup raises
AClose(cl, ss) ==
  IF cl = NoClient
  THEN [sessions |-> ss, raised |-> "AttributeError"]
  ELSE [sessions |-> [ss EXCEPT ![cl] = TRUE], raised |-> "no"]

\* close without its guard
CloseClientUnguarded(cl, ss) == AClose(cl, ss)

\* close
CloseClient(cl, ss) ==
  IF cl # NoClient /\ ~IsClosed(ss, cl)
  THEN AClose(cl, ss)
  ELSE [sessions |-> ss, raised |-> "no"]

\* ------------------------------------------------------------------------
\* Results and errors
\* ------------------------------------------------------------------------
PyInt(n) == [t |-> "int", v |-> n]
PyFloat(n) == [t |-> "float", v |-> n]
PyStr(s) == [t |-> "str", s |-> s]

Ok(v) == [kind |-> "ok", value |-> v]
APIError(msg, status, details) ==
  [kind |-> "APIError", message |-> msg, status_code |-> status, details |-> details]
NotFoundError(resource, identifier) ==
  [kind |-> "NotFoundError", resource |-> resource, identifier |-> identifier]
RateLimitError(retry) == [kind |-> "RateLimitError", retry_after |-> retry]
\* errors that are not InspireHEPError
ValueError == [kind |-> "ValueError"]
RuntimeError == [kind |-> "RuntimeError"]

Taxonomy == {"APIError", "NotFoundError", "RateLimitError", "InvalidIdentifierError"}

\* str(exc) of a transport exception
ExcText == <<"e", "x", "c">>

\* text, not truncated
TruncateOff(text) == text

\* text[:500]
Truncate(text) == SubSeq(text, 1, Min(DetailsLimit, Len(text)))

\* the except clauses around client.request, shared by both flavors
TransportError(out) ==
  IF out.t = "TimeoutException"
  THEN APIError("Request timed out", None, ExcText)
  ELSE APIError("HTTP request failed", None, ExcText)

\* _request, from the response to the return or raise
ClassifyRequest(path, out) ==
  IF out.t # "response" THEN TransportError(out)
  ELSE IF out.status_code = 429
  THEN IF out.retry_after # None /\ out.retry_after.s # ""
       THEN IF ParseFloat(out.retry_after.s).ok
            THEN RateLimitError(PyFloat(ParseFloat(out.retry_after.s).value))
            ELSE ValueError
       ELSE RateLimitError(None)
  ELSE IF out.status_code = 404 THEN NotFoundError("resource", path)
  ELSE IF out.status_code >= 400
  THEN APIError("API request failed", PyInt(out.status_code), Truncate(out.text))
  ELSE IF ParseJson(out.text).ok THEN Ok(ParseJson(out.text).value)
  ELSE ValueError

\* get_text without its 404 branch
ClassifyTextNo404(path, out) ==
  IF out.t # "response" THEN TransportError(out)
  ELSE IF out.status_code >= 400
  THEN APIError("API request failed", PyInt(out.status_code), Truncate(out.text))
  ELSE Ok(PyStr(out.text))

\* get_text, from the response to the return or raise
ClassifyText(path, out) ==
  IF out.t # "response" THEN TransportError(out)
  ELSE IF out.status_code = 404 THEN NotFoundError("resource", path)
  ELSE IF out.status_code >= 400
  THEN APIError("API request failed", PyInt(out.status_code), Truncate(out.text))
  ELSE Ok(PyStr(out.text))

Classify(flavor, path, out) ==
  IF flavor = "get_text" THEN ClassifyText(path, out) ELSE ClassifyRequest(path, out)

\* ------------------------------------------------------------------------
\* The tools: arguments, validation, requests, payloads
\* ------------------------------------------------------------------------
Max(a, b) == IF a > b THEN a ELSE b

\* max(1, min(size, hi))
Clamp(size, hi) == Max(1, Min(size, hi))

\* the sizes the callers ask for
Sizes == {0, 50, 101, 200, 251}

\* the identifier arguments: absent, well-formed, malformed
InspireIds == {None, PyStr("12"), PyStr("x")}
ArxivIds == {None, PyStr("arXiv:2301.1"), PyStr("not-valid")}
Dois == {None, PyStr("10.1/x"), PyStr("bad")}
AuthorNames == {None, PyStr("Weinberg, Steven")}
AuthorIds == {None, PyStr("Steven.Weinberg.1")}

\* the sort, direction and format arguments
SortArgs == {"bestmatch", "mostrecent", "bogus"}
DirectionArgs == {"citing", "cited_by", "bogus"}
FormatArgs == {"bibtex", "json", "bogus"}

\* valid_sorts, valid_directions, valid_formats
SearchSorts == {"bestmatch", "mostrecent", "mostcited"}
ListSorts == {"mostrecent", "mostcited"}
Directions == {"citing", "cited_by"}
Formats == {"bibtex", "json", "latex-us", "latex-eu"}

\* normalize_inspire_id / normalize_arxiv_id / normalize_doi: the normal
\* form of a well-formed identifier, InvalidIdentifierError otherwise
NormalizeInspireId(v) ==
  IF v = PyStr("12") THEN [ok |-> TRUE, value |-> "12"] ELSE [ok |-> FALSE, value |-> ""]
NormalizeArxivId(v) ==
  IF v = PyStr("arXiv:2301.1") THEN [ok |-> TRUE, value |-> "2301.1"]
  ELSE [ok |-> FALSE, value |-> ""]
NormalizeDoi(v) ==
  IF v = PyStr("10.1/x") THEN [ok |-> TRUE, value |-> "10.1/x"]
  ELSE [ok |-> FALSE, value |-> ""]

InvalidIdentifierError(v) == [kind |-> "InvalidIdentifierError", identifier |-> v]

\* isinstance(exc, InspireHEPError)
IsInspireHEPError(res) == res.kind \in Taxonomy

\* f"/literature/{record_id}", f"/arxiv/{arxiv_id}", f"/doi/{doi}" on the
\* identifiers of the model
PathTo(prefix, id) ==
  CASE prefix = "/literature/" /\ id = "12" -> "/literature/12"
    [] prefix = "/arxiv/" /\ id = "2301.1" -> "/arxiv/2301.1"
    [] prefix = "/doi/" /\ id = "10.1/x" -> "/doi/10.1/x"
    [] OTHER -> "/unknown"

\* A query string is the tuple of the pieces it is formatted from.
\* search_literature(query, sort=sort, size=size): the arguments of its get
SearchLiterature(query, sort, size) ==
  [path |-> "/literature",
   params |-> << <<"q", query>>, <<"sort", sort>>, <<"size", Min(size, 100)>>,
                 <<"page", 1>>, <<"fields", "_LITERATURE_FIELDS">> >>]

\* get_literature_record / get_literature_by_arxiv / get_literature_by_doi
LookupRecord(prefix, id, fields) ==
  [path |-> PathTo(prefix, id), params |-> << <<"fields", fields>> >>]

\* search_authors(query, size=size)
SearchAuthors(query, size) ==
  [path |-> "/authors", params |-> << <<"q", query>>, <<"size", Min(size, 100)>> >>]

\* the get_text arguments of get_references, for n resolvable references
ReferencesText(nid, n, format) ==
  [path |-> "/literature",
   params |-> << <<"q", <<"recid:", nid>> >>, <<"size", Min(n, 250)>>,
                 <<"format", format>> >>]

\* what a tool hands back: json.dumps({"error": str(err)}), a result, or
\* an exception that leaves the tool
NoPayload == [t |-> "none"]
ErrorPayload(err) == [t |-> "error", error |-> err]
SuccessPayload == [t |-> "success"]
Raised(kind) == [t |-> "raised", exc |-> kind]

\* the tool layer at rest
IdleTool ==
  [pc |-> "idle", name |-> "none", stage |-> "none",
   inspire_id |-> None, arxiv_id |-> None, doi |-> None,
   author_name |-> None, author_id |-> None,
   option |-> "", size |-> 0, payload |-> NoPayload,
   lookups |-> 0, failures |-> {}, invocations |-> 0]

\* ------------------------------------------------------------------------
\* State
\* ------------------------------------------------------------------------
VARIABLES
  now,                \* the event loop's clock
  last_request_time,  \* _last_request_time
  rate_lock,          \* holder of _rate_lock, 0 when unlocked
  waiters,            \* tasks queued on _rate_lock, first come first served
  cache,              \* _cache
  client,             \* _client: a handle, NoClient for None
  sessions,           \* is_closed of every session created so far
  close_raised,       \* how the last close() ended: "never", "no", or the error
  calls,              \* per task: the call it is running
  ncalls,             \* calls started
  net_calls,          \* client.request invocations
  starts,             \* the instants at which calls left the rate limiter
  tool                \* the tool invocation that task 1 runs, if any

vars == <<now, last_request_time, rate_lock, waiters, cache, client, sessions,
          close_raised, calls, ncalls, net_calls, starts, tool>>

\* the state of the client, as opposed to that of the tool layer
clientvars == <<now, last_request_time, rate_lock, waiters, cache, client, sessions,
                close_raised, calls, ncalls, net_calls, starts>>

Unlocked == 0

NoOutcome == [t |-> "none"]

\* a task that runs no call
Idle ==
  [pc |-> "idle", flavor |-> "get", method |-> "GET", path |-> "/p", params |-> <<>>,
   key |-> <<>>, use_cache |-> TRUE, wake_at |-> 0, session |-> NoClient,
   passes |-> 0, attempts |-> 0, out |-> NoOutcome, result |-> Ok(None)]

Init ==
  /\ now \in 0..RateInterval
  /\ last_request_time = 0
  /\ rate_lock = Unlocked
  /\ waiters = <<>>
  /\ cache = EmptyCache
  /\ client = NoClient
  /\ sessions = <<>>
  /\ close_raised = "never"
  /\ calls = [c \in Callers |-> Idle]
  /\ ncalls = 0
  /\ net_calls = 0
  /\ starts = <<>>
  /\ tool = IdleTool

\* ------------------------------------------------------------------------
\* The rate limiter and the start of the network request
\* ------------------------------------------------------------------------
\* a limiter that leaves its critical section without releasing the lock
PassGateKeepLock(c, cs) ==
  LET g == GetClient(client, sessions)
  IN /\ last_request_time' = now
     /\ rate_lock' = c
     /\ client' = g.client
     /\ sessions' = g.sessions
     /\ starts' = Append(starts, now)
     /\ IF IsClosed(g.sessions, g.client)
        THEN /\ calls' = [calls EXCEPT ![c] =
                  [cs EXCEPT !.pc = "done", !.passes = @ + 1, !.session = g.client,
                             !.result = RuntimeError]]
             /\ net_calls' = net_calls
        ELSE /\ calls' = [calls EXCEPT ![c] =
                  [cs EXCEPT !.pc = "sending", !.passes = @ + 1, !.attempts = @ + 1,
                             !.session = g.client]]
             /\ net_calls' = net_calls + 1

\* Task c, holding the lock, writes _last_request_time, releases the lock,
\* takes the session from _get_client and starts client.request on it; cs
\* is its call so far.  A request on a closed session raises RuntimeError.
PassGate(c, cs) ==
  LET g == GetClient(client, sessions)
  IN /\ last_request_time' = now
     /\ rate_lock' = Unlocked
     /\ client' = g.client
     /\ sessions' = g.sessions
     /\ starts' = Append(starts, now)
     /\ IF IsClosed(g.sessions, g.client)
        THEN /\ calls' = [calls EXCEPT ![c] =
                  [cs EXCEPT !.pc = "done", !.passes = @ + 1, !.session = g.client,
                             !.result = RuntimeError]]
             /\ net_calls' = net_calls
        ELSE /\ calls' = [calls EXCEPT ![c] =
                  [cs EXCEPT !.pc = "sending", !.passes = @ + 1, !.attempts = @ + 1,
                             !.session = g.client]]
             /\ net_calls' = net_calls + 1

\* the limiter without its sleep
EnterGateNoSleep(c, cs) == PassGate(c, cs)

\* a limiter that lets go of the lock while it sleeps
EnterGateUnlocked(c, cs) ==
  IF now - last_request_time < RateInterval
  THEN /\ calls' = [calls EXCEPT ![c] =
            [cs EXCEPT !.pc = "sleeping",
                       !.wake_at = now + (RateInterval - (now - last_request_time))]]
       /\ rate_lock' = Unlocked
       /\ UNCHANGED <<last_request_time, client, sessions, starts, net_calls>>
  ELSE PassGate(c, cs)

\* Task c has just acquired the lock: it sleeps the rest of the interval,
\* or goes on at once.
EnterGate(c, cs) ==
  IF now - last_request_time < RateInterval
  THEN /\ calls' = [calls EXCEPT ![c] =
            [cs EXCEPT !.pc = "sleeping",
                       !.wake_at = now + (RateInterval - (now - last_request_time))]]
       /\ rate_lock' = c
       /\ UNCHANGED <<last_request_time, client, sessions, starts, net_calls>>
  ELSE PassGate(c, cs)

\* ------------------------------------------------------------------------
\* Operations
\* ------------------------------------------------------------------------
\* a call that goes from its cache miss straight to the network
CallNoLimiter(c, flavor, req, use_cache, discard) ==
  LET method == IF flavor = "post" THEN "POST" ELSE "GET"
      prefix == IF flavor = "get_text" THEN "GET_TEXT" ELSE method
      key == CacheKey(prefix, req.path, req.params)
      lookup == flavor = "get_text" \/ (use_cache /\ method = "GET")
      got == CacheGet(cache, key, now, discard)
      g == GetClient(client, sessions)
      cs == [Idle EXCEPT !.flavor = flavor, !.method = method, !.path = req.path,
                         !.params = req.params, !.key = key, !.use_cache = use_cache]
  IN /\ calls[c].pc \in {"idle", "done"}
     /\ ncalls' = ncalls + 1
     /\ cache' = IF lookup THEN got.cache ELSE cache
     /\ UNCHANGED <<now, close_raised, last_request_time, rate_lock, waiters, starts>>
     /\ IF lookup /\ got.value # None
        THEN /\ calls' = [calls EXCEPT ![c] =
                  [cs EXCEPT !.pc = "done", !.result = Ok(got.value)]]
             /\ UNCHANGED <<client, sessions, net_calls>>
        ELSE /\ client' = g.client
             /\ sessions' = g.sessions
             /\ calls' = [calls EXCEPT ![c] =
                  [cs EXCEPT !.pc = "sending", !.attempts = 1, !.session = g.client]]
             /\ net_calls' = net_calls + 1

\* a request engine that looks the cache up whatever use_cache says
CallAlwaysLookup(c, flavor, req, use_cache, discard) ==
  LET method == IF flavor = "post" THEN "POST" ELSE "GET"
      prefix == IF flavor = "get_text" THEN "GET_TEXT" ELSE method
      key == CacheKey(prefix, req.path, req.params)
      lookup == flavor = "get_text" \/ method = "GET"
      got == CacheGet(cache, key, now, discard)
      cs == [Idle EXCEPT !.flavor = flavor, !.method = method, !.path = req.path,
                         !.params = req.params, !.key = key, !.use_cache = use_cache]
  IN /\ calls[c].pc \in {"idle", "done"}
     /\ ncalls' = ncalls + 1
     /\ cache' = IF lookup THEN got.cache ELSE cache
     /\ UNCHANGED <<now, close_raised>>
     /\ IF lookup /\ got.value # None
        THEN /\ calls' = [calls EXCEPT ![c] =
                  [cs EXCEPT !.pc = "done", !.result = Ok(got.value)]]
             /\ UNCHANGED <<last_request_time, rate_lock, waiters, client, sessions,
                            net_calls, starts>>
        ELSE IF rate_lock = Unlocked /\ waiters = <<>>
             THEN /\ EnterGate(c, cs)
                  /\ UNCHANGED waiters
             ELSE /\ calls' = [calls EXCEPT ![c] = [cs EXCEPT !.pc = "wait_lock"]]
                  /\ waiters' = Append(waiters, c)
                  /\ UNCHANGED <<last_request_time, rate_lock, client, sessions,
                                 net_calls, starts>>

\* get / get_text up to the first suspension: the cache lookup, then the
\* lock (taken at once when free and nobody queues, else the task queues).
Call(c, flavor, req, use_cache, discard) ==
  LET method == IF flavor = "post" THEN "POST" ELSE "GET"
      prefix == IF flavor = "get_text" THEN "GET_TEXT" ELSE method
      key == CacheKey(prefix, req.path, req.params)
      lookup == flavor = "get_text" \/ (use_cache /\ method = "GET")
      got == CacheGet(cache, key, now, discard)
      cs == [Idle EXCEPT !.flavor = flavor, !.method = method, !.path = req.path,
                         !.params = req.params, !.key = key, !.use_cache = use_cache]
  IN /\ calls[c].pc \in {"idle", "done"}
     /\ ncalls' = ncalls + 1
     /\ cache' = IF lookup THEN got.cache ELSE cache
     /\ UNCHANGED <<now, close_raised>>
     /\ IF lookup /\ got.value # None
        THEN /\ calls' = [calls EXCEPT ![c] =
                  [cs EXCEPT !.pc = "done", !.result = Ok(got.value)]]
             /\ UNCHANGED <<last_request_time, rate_lock, waiters, client, sessions,
                            net_calls, starts>>
        ELSE IF rate_lock = Unlocked /\ waiters = <<>>
             THEN /\ EnterGate(c, cs)
                  /\ UNCHANGED waiters
             ELSE /\ calls' = [calls EXCEPT ![c] = [cs EXCEPT !.pc = "wait_lock"]]
                  /\ waiters' = Append(waiters, c)
                  /\ UNCHANGED <<last_request_time, rate_lock, client, sessions,
                                 net_calls, starts>>

\* the first queued task gets the released lock
Acquire(c) ==
  /\ calls[c].pc = "wait_lock"
  /\ rate_lock = Unlocked
  /\ waiters # <<>> /\ Head(waiters) = c
  /\ waiters' = Tail(waiters)
  /\ EnterGate(c, calls[c])
  /\ UNCHANGED <<now, cache, close_raised, ncalls, tool>>

\* a limiter exit that looks the cache up again before it sends
WakeRecheck(c) ==
  LET cs == calls[c]
      lookup == cs.flavor = "get_text" \/ (cs.use_cache /\ cs.method = "GET")
      got == CacheGet(cache, cs.key, now, FALSE)
  IN /\ cs.pc = "sleeping"
     /\ now >= cs.wake_at
     /\ IF lookup /\ got.value # None
        THEN /\ calls' = [calls EXCEPT ![c] =
                  [cs EXCEPT !.pc = "done", !.result = Ok(got.value)]]
             /\ cache' = got.cache
             /\ rate_lock' = Unlocked
             /\ UNCHANGED <<last_request_time, client, sessions, starts, net_calls>>
        ELSE PassGate(c, cs) /\ UNCHANGED cache
     /\ UNCHANGED <<now, waiters, close_raised, ncalls, tool>>

\* asyncio.sleep returns, not before its delay has passed
Wake(c) ==
  /\ calls[c].pc = "sleeping"
  /\ now >= calls[c].wake_at
  /\ PassGate(c, calls[c])
  /\ UNCHANGED <<now, waiters, cache, close_raised, ncalls, tool>>

\* a request engine that goes back to the limiter after a transport failure
RespondRetry(c, out) ==
  LET cs == calls[c]
      res == Classify(cs.flavor, cs.path, out)
      store == cs.flavor = "get_text" \/ (cs.use_cache /\ cs.method = "GET")
  IN /\ cs.pc = "sending"
     /\ IF out.t # "response"
        THEN /\ calls' = [calls EXCEPT ![c] = [cs EXCEPT !.pc = "wait_lock", !.out = out]]
             /\ waiters' = Append(waiters, c)
        ELSE /\ calls' = [calls EXCEPT ![c] = [cs EXCEPT !.pc = "done", !.out = out,
                                                        !.result = res]]
             /\ UNCHANGED waiters
     /\ cache' = IF res.kind = "ok" /\ store
                 THEN CacheSet(cache, cs.key, res.value, now)
                 ELSE cache
     /\ UNCHANGED <<now, last_request_time, rate_lock, client, sessions,
                    close_raised, ncalls, net_calls, starts, tool>>

\* a request engine that remembers a failed key with a null entry
RespondStoreFailure(c, out) ==
  LET cs == calls[c]
      res == Classify(cs.flavor, cs.path, out)
      store == cs.flavor = "get_text" \/ (cs.use_cache /\ cs.method = "GET")
  IN /\ cs.pc = "sending"
     /\ calls' = [calls EXCEPT ![c] = [cs EXCEPT !.pc = "done", !.out = out,
                                                 !.result = res]]
     /\ cache' = IF store
                 THEN CacheSet(cache, cs.key, IF res.kind = "ok" THEN res.value ELSE None, now)
                 ELSE cache
     /\ UNCHANGED <<now, last_request_time, rate_lock, waiters, client, sessions,
                    close_raised, ncalls, net_calls, starts, tool>>

\* a request engine that stores every parsed answer
RespondStoreAll(c, out) ==
  LET cs == calls[c]
      res == Classify(cs.flavor, cs.path, out)
  IN /\ cs.pc = "sending"
     /\ calls' = [calls EXCEPT ![c] = [cs EXCEPT !.pc = "done", !.out = out,
                                                 !.result = res]]
     /\ cache' = IF res.kind = "ok"
                 THEN CacheSet(cache, cs.key, res.value, now)
                 ELSE cache
     /\ UNCHANGED <<now, last_request_time, rate_lock, waiters, client, sessions,
                    close_raised, ncalls, net_calls, starts, tool>>

\* client.request returns or raises: classification and the cache write
Respond(c, out) ==
  LET cs == calls[c]
      res == Classify(cs.flavor, cs.path, out)
      store == cs.flavor = "get_text" \/ (cs.use_cache /\ cs.method = "GET")
  IN /\ cs.pc = "sending"
     /\ calls' = [calls EXCEPT ![c] = [cs EXCEPT !.pc = "done", !.out = out,
                                                 !.result = res]]
     /\ cache' = IF res.kind = "ok" /\ store
                 THEN CacheSet(cache, cs.key, res.value, now)
                 ELSE cache
     /\ UNCHANGED <<now, last_request_time, rate_lock, waiters, client, sessions,
                    close_raised, ncalls, net_calls, starts, tool>>

\* close()
Close ==
  LET r == CloseClient(client, sessions)
  IN /\ Len(sessions) < MaxSessions
     /\ sessions' = r.sessions
     /\ close_raised' = r.raised
     /\ UNCHANGED <<now, last_request_time, rate_lock, waiters, cache, client, calls,
                    ncalls, net_calls, starts, tool>>

\* time passes, freely up to the limit and beyond it for a sleeper
Advance(limit) ==
  /\ \/ now < limit
     \/ \E c \in Callers : calls[c].pc = "sleeping" /\ now < calls[c].wake_at
  /\ now' = now + 1
  /\ UNCHANGED <<last_request_time, rate_lock, waiters, cache, client, sessions,
                 close_raised, calls, ncalls, net_calls, starts, tool>>

Tick == Advance(MaxTime)

\* the clock of the cache specification runs on until entries expire
TickCache == Advance(MaxCacheTime)

Next ==
  \/ \E c \in Callers, req \in Requests, use_cache \in BOOLEAN, discard \in BOOLEAN :
       ncalls < MaxCalls /\ Call(c, "get", req, use_cache, discard) /\ UNCHANGED tool
  \/ \E c \in Callers, req \in Requests, discard \in BOOLEAN :
       ncalls < MaxCalls /\ Call(c, "get_text", req, TRUE, discard) /\ UNCHANGED tool
  \/ \E c \in Callers : Acquire(c)
  \/ \E c \in Callers : Wake(c)
  \/ \E c \in Callers, out \in CoreOutcomes : Respond(c, out)
  \/ Close
  \/ Tick

Spec == Init /\ [][Next]_vars

\* One task issuing its calls one after the other, against every outcome.
NextSeq ==
  \/ \E req \in PlainRequests, use_cache \in BOOLEAN, discard \in BOOLEAN :
       ncalls < MaxCalls /\ Call(1, "get", req, use_cache, discard) /\ UNCHANGED tool
  \/ \E req \in PlainRequests, discard \in BOOLEAN :
       ncalls < MaxCalls /\ Call(1, "get_text", req, TRUE, discard) /\ UNCHANGED tool
  \/ Wake(1)
  \/ \E out \in Outcomes : Respond(1, out)
  \/ Close
  \/ Tick

SpecSeq == Init /\ [][NextSeq]_vars

\* The tasks of Spec under fair scheduling: the event loop runs every task
\* that is ready (a lock waiter whose turn has come, a sleeper whose delay
\* has passed), and time goes on.  Nothing obliges a caller to call or the
\* network to answer.
NextFair ==
  \/ \E c \in Callers, req \in PlainRequests, use_cache \in BOOLEAN :
       ncalls < MaxCalls /\ Call(c, "get", req, use_cache, FALSE) /\ UNCHANGED tool
  \/ \E c \in Callers : Acquire(c)
  \/ \E c \in Callers : Wake(c)
  \/ \E c \in Callers, out \in CoreOutcomes : Respond(c, out)
  \/ Tick

SpecFair ==
  /\ Init /\ [][NextFair]_vars
  /\ WF_vars(Tick)
  /\ \A c \in Callers : WF_vars(Acquire(c)) /\ WF_vars(Wake(c))

\* the answers the cache specification draws from: two bodies that parse
CacheOutcomes == {Resp(200, None, BodyObj), Resp(200, None, BodyList)}

\* One task and successful answers only, with a longer run of calls: the
\* cache fills, is read, evicts and expires.  _request is also called with
\* a method other than GET.
NextCache ==
  \/ \E req \in PlainRequests, use_cache \in BOOLEAN, discard \in BOOLEAN :
       ncalls < MaxCacheCalls /\ Call(1, "get", req, use_cache, discard) /\ UNCHANGED tool
  \/ \E req \in PlainRequests, discard \in BOOLEAN :
       ncalls < MaxCacheCalls /\ Call(1, "get_text", req, TRUE, discard) /\ UNCHANGED tool
  \/ \E req \in PlainRequests, use_cache \in BOOLEAN :
       ncalls < MaxCacheCalls /\ Call(1, "post", req, use_cache, FALSE) /\ UNCHANGED tool
  \/ Wake(1)
  \/ \E out \in CacheOutcomes : Respond(1, out)
  \/ TickCache

SpecCache == Init /\ [][NextCache]_vars

\* Two tasks issuing cached gets that are all answered with success, by one
\* of two different bodies: calls for one key race on its entry.
NextRace ==
  \/ \E c \in Callers, req \in PlainRequests, discard \in BOOLEAN :
       ncalls < MaxCalls /\ Call(c, "get", req, TRUE, discard) /\ UNCHANGED tool
  \/ \E c \in Callers : Acquire(c)
  \/ \E c \in Callers : Wake(c)
  \/ \E c \in Callers, out \in CacheOutcomes : Respond(c, out)
  \/ Tick

SpecRace == Init /\ [][NextRace]_vars

\* ------------------------------------------------------------------------
\* The tools
\* ------------------------------------------------------------------------
\* Task 1 runs one tool invocation at a time.  A tool runs from its entry to
\* its first client call in one step, and from the end of a client call to
\* its next client call or its return in one step.

\* a new invocation may start
CanInvoke ==
  /\ tool.pc \in {"idle", "returned"}
  /\ calls[1].pc \in {"idle", "done"}
  /\ tool.invocations < MaxInvocations

\* the record of a new invocation of the tool called name
Fresh(name) == [IdleTool EXCEPT !.name = name, !.invocations = tool.invocations + 1]

\* the invocation t returns payload without touching the client
Returns(t, payload) ==
  /\ tool' = [t EXCEPT !.pc = "returned", !.payload = payload]
  /\ UNCHANGED clientvars

\* the invocation t awaits a client call
Awaits(t, stage, flavor, req, discard) ==
  /\ tool' = [t EXCEPT !.pc = "awaiting", !.stage = stage, !.lookups = @ + 1]
  /\ Call(1, flavor, req, TRUE, discard)

\* inspire_id or arxiv_id or doi
FirstGiven(t) ==
  IF t.inspire_id # None THEN t.inspire_id
  ELSE IF t.arxiv_id # None THEN t.arxiv_id ELSE t.doi

\* a selection that looks at the DOI first
SelectLookupDoiFirst(t) ==
  IF t.doi # None
  THEN [prefix |-> "/doi/", norm |-> NormalizeDoi(t.doi), supplied |-> t.doi]
  ELSE IF t.arxiv_id # None
  THEN [prefix |-> "/arxiv/", norm |-> NormalizeArxivId(t.arxiv_id),
        supplied |-> t.arxiv_id]
  ELSE [prefix |-> "/literature/", norm |-> NormalizeInspireId(t.inspire_id),
        supplied |-> t.inspire_id]

\* the if / elif / else of get_paper_details: the identifier it looks up
SelectLookup(t) ==
  IF t.inspire_id # None
  THEN [prefix |-> "/literature/", norm |-> NormalizeInspireId(t.inspire_id),
        supplied |-> t.inspire_id]
  ELSE IF t.arxiv_id # None
  THEN [prefix |-> "/arxiv/", norm |-> NormalizeArxivId(t.arxiv_id),
        supplied |-> t.arxiv_id]
  ELSE [prefix |-> "/doi/", norm |-> NormalizeDoi(t.doi), supplied |-> t.doi]

\* an except clause that lets the success path run on a failure too
SearchResultSwallow(res) ==
  IF res.kind = "ok" /\ res.value.t # "dict" THEN Raised("AttributeError")
  ELSE IF res.kind \notin Taxonomy \cup {"ok"} THEN Raised(res.kind)
  ELSE SuccessPayload

\* after `raw = await client.search_literature(...)`: the except clause,
\* else raw.get(...) and the result
SearchResult(res) ==
  IF IsInspireHEPError(res) THEN ErrorPayload(res)
  ELSE IF res.kind # "ok" THEN Raised(res.kind)
  ELSE IF res.value.t = "dict" THEN SuccessPayload
  ELSE Raised("AttributeError")

\* after the lookup of get_paper_details: its two except clauses, else
\* _build_detail_response
DetailsResult(t, res) ==
  IF res.kind = "NotFoundError"
  THEN ErrorPayload(NotFoundError("paper", FirstGiven(t).s))
  ELSE SearchResult(res)

\* search_papers without its sort check
SearchPapersNoCheck(sort, size, discard) ==
  LET t == [Fresh("search_papers") EXCEPT !.option = sort, !.size = size]
  IN /\ CanInvoke
     /\ Awaits(t, "search", "get",
               SearchLiterature(<<"query">>, sort, Clamp(size, 100)), discard)

\* search_papers, to its first await or its return
SearchPapers(sort, size, discard) ==
  LET t == [Fresh("search_papers") EXCEPT !.option = sort, !.size = size]
  IN /\ CanInvoke
     /\ IF sort \notin SearchSorts
        THEN Returns(t, ErrorPayload(ValueError))
        ELSE Awaits(t, "search", "get",
                    SearchLiterature(<<"query">>, sort, Clamp(size, 100)), discard)

\* get_paper_details, to its await or its return
GetPaperDetails(inspire_id, arxiv_id, doi, discard) ==
  LET t == [Fresh("get_paper_details") EXCEPT !.inspire_id = inspire_id,
                                              !.arxiv_id = arxiv_id, !.doi = doi]
      sel == SelectLookup(t)
  IN /\ CanInvoke
     /\ IF inspire_id = None /\ arxiv_id = None /\ doi = None
        THEN Returns(t, ErrorPayload(ValueError))
        ELSE IF ~sel.norm.ok
        THEN Returns(t, ErrorPayload(InvalidIdentifierError(sel.supplied.s)))
        ELSE Awaits(t, "details", "get",
                    LookupRecord(sel.prefix, sel.norm.value, "_DETAIL_FIELDS"), discard)

\* get_author_papers, to its first await or its return
GetAuthorPapers(author_name, author_id, sort, size, discard) ==
  LET t == [Fresh("get_author_papers") EXCEPT !.author_name = author_name,
               !.author_id = author_id, !.option = sort, !.size = size]
  IN /\ CanInvoke
     /\ IF author_name = None /\ author_id = None
        THEN Returns(t, ErrorPayload(ValueError))
        ELSE IF sort \notin ListSorts
        THEN Returns(t, ErrorPayload(ValueError))
        ELSE IF author_id # None
        THEN Awaits(t, "search", "get",
                    SearchLiterature(<<"a ", author_id.s>>, sort, Clamp(size, 100)),
                    discard)
        ELSE Awaits(t, "resolve", "get", SearchAuthors(<<author_name.s>>, 1), discard)

\* get_citations, to its await or its return
GetCitations(inspire_id, direction, size, discard) ==
  LET t == [Fresh("get_citations") EXCEPT !.inspire_id = inspire_id,
                                          !.option = direction, !.size = size]
      norm == NormalizeInspireId(inspire_id)
      query == IF direction = "citing" THEN <<"refersto:", norm.value>>
               ELSE <<"citedby:recid:", norm.value>>
  IN /\ CanInvoke
     /\ IF direction \notin Directions
        THEN Returns(t, ErrorPayload(ValueError))
        ELSE IF ~norm.ok
        THEN Returns(t, ErrorPayload(InvalidIdentifierError(inspire_id.s)))
        ELSE Awaits(t, "search", "get",
                    SearchLiterature(query, "mostrecent", Clamp(size, 250)), discard)

\* search_by_collaboration, to its await or its return
SearchByCollaboration(sort, size, discard) ==
  LET t == [Fresh("search_by_collaboration") EXCEPT !.option = sort, !.size = size]
  IN /\ CanInvoke
     /\ IF sort \notin ListSorts
        THEN Returns(t, ErrorPayload(ValueError))
        ELSE Awaits(t, "search", "get",
                    SearchLiterature(<<"collaboration:", "ATLAS">>, sort,
                                     Clamp(size, 100)), discard)

\* get_references, to its first await or its return
GetReferences(inspire_id, format, discard) ==
  LET t == [Fresh("get_references") EXCEPT !.inspire_id = inspire_id,
                                           !.option = format]
      norm == NormalizeInspireId(inspire_id)
  IN /\ CanInvoke
     /\ IF format \notin Formats
        THEN Returns(t, ErrorPayload(ValueError))
        ELSE IF ~norm.ok
        THEN Returns(t, ErrorPayload(InvalidIdentifierError(inspire_id.s)))
        ELSE Awaits(t, "record", "get",
                    LookupRecord("/literature/", norm.value, "references,titles"),
                    discard)

\* The client call the tool awaits has ended: the tool goes on to its next
\* client call, returns, or lets an exception through.
Resume(discard) ==
  LET res == calls[1].result
      t == [tool EXCEPT !.failures =
              IF IsInspireHEPError(res) THEN @ \cup {tool.stage} ELSE @]
  IN /\ tool.pc = "awaiting"
     /\ calls[1].pc = "done"
     /\ CASE tool.stage = "resolve" ->
               \* _resolve_author_bai: an InspireHEPError is passed over and
               \* the raw name used; so is an answer without hits
               IF res.kind \notin Taxonomy \cup {"ok"} THEN Returns(t, Raised(res.kind))
               ELSE IF res.kind = "ok" /\ res.value.t # "dict"
               THEN Returns(t, Raised("AttributeError"))
               ELSE Awaits(t, "search", "get",
                           SearchLiterature(<<"a ", tool.author_name.s>>, tool.option,
                                            Clamp(tool.size, 100)), discard)
          [] tool.stage = "search" -> Returns(t, SearchResult(res))
          [] tool.stage = "details" -> Returns(t, DetailsResult(tool, res))
          [] tool.stage = "record" ->
               IF res.kind = "NotFoundError"
               THEN Returns(t, ErrorPayload(
                      NotFoundError("paper", NormalizeInspireId(tool.inspire_id).value)))
               ELSE IF res.kind # "ok" \/ res.value.t # "dict"
               THEN Returns(t, SearchResult(res))
               ELSE IF res.value = ParseJson(BodyRefs).value /\ tool.option # "json"
               THEN Awaits(t, "text", "get_text",
                           ReferencesText(NormalizeInspireId(tool.inspire_id).value,
                                          1, tool.option), discard)
               ELSE Returns(t, SuccessPayload)
          [] tool.stage = "text" ->
               IF IsInspireHEPError(res) THEN Returns(t, ErrorPayload(res))
               ELSE IF res.kind # "ok" THEN Returns(t, Raised(res.kind))
               ELSE Returns(t, SuccessPayload)

\* what the transport hands back in the tools specification
ToolOutcomes ==
  {[t |-> "TimeoutException"],
   Resp(200, None, BodyObj), Resp(200, None, BodyRefs), Resp(200, None, BodyList),
   Resp(404, None, BodyHtml), Resp(429, None, <<>>), Resp(500, None, Text(0))}

\* One task runs tools one after the other against the client.
NextTools ==
  \/ \E sort \in SortArgs, size \in Sizes, discard \in BOOLEAN :
       SearchPapers(sort, size, discard)
  \/ \E inspire_id \in InspireIds, arxiv_id \in ArxivIds, doi \in Dois,
        discard \in BOOLEAN :
       GetPaperDetails(inspire_id, arxiv_id, doi, discard)
  \/ \E author_name \in AuthorNames, author_id \in AuthorIds, sort \in SortArgs,
        size \in Sizes, discard \in BOOLEAN :
       GetAuthorPapers(author_name, author_id, sort, size, discard)
  \/ \E inspire_id \in InspireIds \ {None}, direction \in DirectionArgs,
        size \in Sizes, discard \in BOOLEAN :
       GetCitations(inspire_id, direction, size, discard)
  \/ \E sort \in SortArgs, size \in Sizes, discard \in BOOLEAN :
       SearchByCollaboration(sort, size, discard)
  \/ \E inspire_id \in InspireIds \ {None}, format \in FormatArgs,
        discard \in BOOLEAN :
       GetReferences(inspire_id, format, discard)
  \/ \E discard \in BOOLEAN : Resume(discard)
  \/ Wake(1)
  \/ \E out \in ToolOutcomes : Respond(1, out)
  \/ Tick

SpecTools == Init /\ [][NextTools]_vars

\* ------------------------------------------------------------------------
\* Properties
\* ------------------------------------------------------------------------
Done(c) == calls[c].pc = "done"
Answered(c) == Done(c) /\ calls[c].out.t = "response"
TransportFailed(c) == calls[c].out.t \in {"TimeoutException", "HTTPError"}

\* C1: successive calls leave the rate-limiter gate, and start their
\* network request, at instants at least RateInterval apart, under every
\* interleaving of the tasks sharing the client.
RateSpacing ==
  \A i \in 2..Len(starts) : starts[i] - starts[i - 1] >= RateInterval

\* three calls have left the gate, two of their requests are in flight at once
RateSpacingWitness ==
  /\ Len(starts) >= 3
  /\ \A c \in Callers : calls[c].pc = "sending"

\* C2: a call whose key has a live cache entry, whatever the stored value,
\* returns that entry and neither passes the rate limiter nor issues a
\* network request.
LiveEntryIsReturned ==
  [][\A c \in Callers :
       (/\ ncalls' = ncalls + 1
        /\ calls'[c] # calls[c]
        /\ (calls'[c].flavor = "get_text" \/ calls'[c].use_cache)
        /\ CacheLive(cache, calls'[c].key, now))
       => (/\ calls'[c].pc = "done"
           /\ calls'[c].result =
                Ok(cache.entries[CacheIndex(cache.entries, calls'[c].key)].value)
           /\ net_calls' = net_calls
           /\ starts' = starts
           /\ last_request_time' = last_request_time)]_vars

\* C3: every call that fails, fails with one of the four taxonomy kinds.
OnlyTaxonomyErrors ==
  \A c \in Callers :
    (Done(c) /\ calls[c].result.kind # "ok") => calls[c].result.kind \in Taxonomy

\* C4: a 429 answer, to get and to get_text alike, ends the call with
\* RateLimitError carrying the Retry-After seconds, or none when the header
\* is absent.
Status429IsRateLimitError ==
  \A c \in Callers :
    (/\ Answered(c)
     /\ calls[c].out.status_code = 429
     /\ (calls[c].out.retry_after = None \/ ParseFloat(calls[c].out.retry_after.s).ok))
    => calls[c].result =
         RateLimitError(IF calls[c].out.retry_after = None THEN None
                        ELSE PyFloat(ParseFloat(calls[c].out.retry_after.s).value))

\* C5: a 404 answer ends the call with NotFoundError carrying the label
\* "resource" and the requested path, never with APIError.
Status404IsNotFound ==
  \A c \in Callers :
    (Answered(c) /\ calls[c].out.status_code = 404)
    => calls[c].result = NotFoundError("resource", calls[c].path)

Status404Witness ==
  \E c \in Callers :
    /\ Answered(c) /\ calls[c].out.status_code = 404
    /\ calls[c].flavor = "get_text" /\ calls[c].path = "/q"

\* C6: an answer with status >= 400 other than 404 and 429 ends the call
\* with APIError carrying that status and the first min(500, len(body))
\* characters of the body.
OtherErrorStatusIsAPIError ==
  \A c \in Callers :
    (/\ Answered(c)
     /\ calls[c].out.status_code >= 400
     /\ calls[c].out.status_code \notin {404, 429})
    => /\ calls[c].result.kind = "APIError"
       /\ calls[c].result.status_code = PyInt(calls[c].out.status_code)
       /\ calls[c].result.details =
            SubSeq(calls[c].out.text, 1, Min(500, Len(calls[c].out.text)))

\* a body one character longer than the limit was cut
OtherErrorStatusWitness ==
  \E c \in Callers :
    /\ Answered(c) /\ calls[c].out.status_code = 500
    /\ Len(calls[c].out.text) = 501
    /\ Len(calls[c].result.details) = 500

\* C7: a call passes the rate limiter at most once and attempts the
\* network at most once; a timeout or transport failure ends it with
\* APIError, with no second attempt.
NoRetry ==
  \A c \in Callers :
    /\ calls[c].passes <= 1
    /\ calls[c].attempts <= 1
    /\ TransportFailed(c) =>
         /\ Done(c)
         /\ calls[c].result.kind = "APIError"
         /\ calls[c].result.status_code = None
         /\ calls[c].passes = 1 /\ calls[c].attempts = 1

NoRetryWitness ==
  /\ \E c \in Callers : Done(c) /\ calls[c].out.t = "TimeoutException"
  /\ ncalls >= 2

\* C8: close never fails, whether the session was never opened, is open or
\* is closed, and closing again right after a close changes nothing.
CloseIdempotent ==
  LET first == CloseClient(client, sessions)
  IN /\ close_raised \in {"never", "no"}
     /\ first.raised = "no"
     /\ CloseClient(client, first.sessions) = first

\* close has run on an open session, which is now closed
CloseIdempotentWitness ==
  /\ close_raised = "no"
  /\ client # NoClient /\ IsClosed(sessions, client)

\* C9: whenever a call leaves the rate limiter, its request goes out on the
\* client's session and that session is open, also after a close; and the
\* call succeeds when the answer is a 200 whose body the flavor can read.
RequestOnOpenSession ==
  [][/\ Len(starts') > Len(starts) =>
          \E c \in Callers :
            /\ calls[c].pc # "sending" /\ calls'[c].pc = "sending"
            /\ calls'[c].session = client'
            /\ client' # NoClient
            /\ ~IsClosed(sessions', client')
     /\ \A c \in Callers :
          (/\ calls[c].pc = "sending" /\ calls'[c].pc # "sending"
           /\ calls'[c].out.t = "response"
           /\ calls'[c].out.status_code = 200
           /\ (calls[c].flavor = "get_text" \/ calls'[c].out.text \in {BodyObj, BodyList}))
          => calls'[c].pc = "done" /\ calls'[c].result.kind = "ok"]_vars

\* a call issued after close ran on a recreated session and succeeded
RequestOnOpenSessionWitness ==
  \E c \in Callers :
    /\ Answered(c) /\ calls[c].result.kind = "ok"
    /\ calls[c].session = 2 /\ IsClosed(sessions, 1)

\* C10: at most one session created by the client is open, it is the one
\* _client refers to, and a session is created only when _client is None or
\* closed.
OpenSessions == {i \in 1..Len(sessions) : ~sessions[i]}

OneLiveSession ==
  [][/\ Cardinality(OpenSessions') <= 1
     /\ \A i \in OpenSessions' : i = client'
     /\ Len(sessions') > Len(sessions) =>
          (client = NoClient \/ IsClosed(sessions, client))]_vars

\* a request still in flight on the closed session, another on the new one
OneLiveSessionWitness ==
  \E c, d \in Callers :
    /\ calls[c].pc = "sending" /\ calls[c].session = 1
    /\ calls[d].pc = "sending" /\ calls[d].session = 2

\* ------------------------------------------------------------------------
\* Cache keys and cache writes
\* ------------------------------------------------------------------------
Range(seq) == {seq[i] : i \in 1..Len(seq)}

\* the key prefix of a call: GET_TEXT for get_text, else the method
KeyPrefix(cs) == IF cs.flavor = "get_text" THEN "GET_TEXT" ELSE cs.method

\* the call looks the cache up before the limiter, and stores on success
UsesCache(cs) == cs.flavor = "get_text" \/ (cs.use_cache /\ cs.method = "GET")

\* C11: the cache key of a call is fixed by its flavor/method, its path and
\* the set of its param pairs: every ordering of the same pairs gives the key
\* the call has, and a call whose pairs are those of a live entry with a
\* value, in whatever order, is answered from that entry without a request.
KeyIgnoresParamOrder ==
  [][\A c \in Callers :
       (calls[c].pc \in {"idle", "done"} /\ ncalls' = ncalls + 1
        /\ calls'[c] # calls[c]) =>
         LET cs == calls'[c]
         IN /\ \A req \in Requests :
                 (req.path = cs.path /\ Range(req.params) = Range(cs.params)) =>
                   cs.key = CacheKey(KeyPrefix(cs), req.path, req.params)
            /\ \A i \in 1..Len(cache.entries) :
                 LET e == cache.entries[i]
                 IN (/\ UsesCache(cs)
                     /\ e.key[1] = KeyPrefix(cs) /\ e.key[2] = cs.path
                     /\ Range(e.key[3]) = Range(cs.params)
                     /\ now < e.expires_at /\ e.value # None) =>
                      /\ cs.pc = "done" /\ cs.result = Ok(e.value)
                      /\ cache'.hits = cache.hits + 1
                      /\ net_calls' = net_calls]_vars

\* C11 witness: two calls in all and one request: task 1 asked /q with the
\* pairs in the order a, b and was answered upstream; task 2 asked with the
\* order b, a and got the same value as a cache hit.
KeyIgnoresParamOrderWitness ==
  /\ ncalls = 2 /\ net_calls = 1 /\ cache.hits = 1
  /\ calls[1].pc = "done" /\ calls[1].params = ParamsAB /\ calls[1].attempts = 1
  /\ calls[1].result.kind = "ok"
  /\ calls[2].pc = "done" /\ calls[2].params = ParamsBA /\ calls[2].attempts = 0
  /\ calls[2].key = calls[1].key
  /\ calls[2].result = calls[1].result

\* the entry of key in the cache ch holds value and expires at t
Holds(ch, key, value, t) ==
  \E i \in 1..Len(ch.entries) :
    ch.entries[i] = [key |-> key, value |-> value, expires_at |-> t]

\* C12: when a get_text call returns successfully the cache holds its text
\* under its key; when a structured request returns successfully the cache
\* holds its data under its key if the method is GET and use_cache is true,
\* and the cache is as it was before the answer otherwise.
StoresOnSuccess ==
  [][\A c \in Callers :
       (calls[c].pc = "sending" /\ calls'[c].pc = "done"
        /\ calls'[c].result.kind = "ok") =>
         LET cs == calls'[c]
         IN IF cs.flavor = "get_text"
            THEN Holds(cache', cs.key, cs.result.value, now + CacheTtl)
            ELSE IF cs.method = "GET" /\ cs.use_cache
                 THEN Holds(cache', cs.key, cs.result.value, now + CacheTtl)
                 ELSE cache' = cache]_vars

\* C12 witness: a structured request with a method other than GET and with
\* use_cache true has returned successfully, and no entry has its key.
StoresOnSuccessWitness ==
  /\ calls[1].pc = "done" /\ calls[1].result.kind = "ok"
  /\ calls[1].method = "POST" /\ calls[1].use_cache
  /\ calls[1].attempts = 1
  /\ CacheIndex(cache.entries, calls[1].key) = 0
  /\ cache.entries # <<>>

\* C13: the cache never holds more than cache_max_size entries.
CacheBounded == Len(cache.entries) <= CacheMaxSize

\* C13 witness: the cache is full after a store that had to evict.
CacheBoundedWitness ==
  /\ Len(cache.entries) = CacheMaxSize
  /\ cache.evictions >= 1
  /\ calls[1].pc = "done" /\ calls[1].result.kind = "ok"
  /\ CacheIndex(cache.entries, calls[1].key) = CacheMaxSize

\* the keys of the cache ch, oldest first
Keys(ch) == [i \in 1..Len(ch.entries) |-> ch.entries[i].key]

\* C14: the cache keeps its keys in insertion order whatever is read: no
\* step changes the relative order of two keys that stay, a new key goes to
\* the young end, and a successful store of a new key into a full cache
\* removes exactly the oldest-inserted key and leaves the others as they were.
EvictsFirstInserted ==
  [][LET old == Keys(cache)
         new == Keys(cache')
     IN /\ \A i, j \in 1..Len(old) :
             (i < j /\ old[i] \in Range(new) /\ old[j] \in Range(new)) =>
               CacheIndex(cache'.entries, old[i]) < CacheIndex(cache'.entries, old[j])
        /\ \A j \in 1..Len(new) : new[j] \notin Range(old) => j = Len(new)
        /\ \A c \in Callers :
             (/\ calls[c].pc = "sending" /\ calls'[c].pc = "done"
              /\ calls'[c].result.kind = "ok" /\ UsesCache(calls[c])
              /\ calls[c].key \notin Range(old)
              /\ Len(old) = CacheMaxSize) =>
               /\ new = Append(Tail(old), calls[c].key)
               /\ \A i \in 2..Len(old) : cache'.entries[i - 1] = cache.entries[i]]_vars

\* C14 witness: four calls, of which one was a cache hit and the last a
\* store that evicted: the cache is full of live entries, the newest being
\* the one just stored.
EvictsFirstInsertedWitness ==
  /\ ncalls = MaxCacheCalls /\ cache.hits >= 1 /\ cache.evictions >= 1
  /\ calls[1].pc = "done" /\ calls[1].attempts = 1 /\ calls[1].result.kind = "ok"
  /\ Len(cache.entries) = CacheMaxSize
  /\ cache.entries[CacheMaxSize].key = calls[1].key
  /\ \A i \in 1..Len(cache.entries) : now < cache.entries[i].expires_at

\* C15: a value stored at time s expires at s + cache_ttl: a call that looks
\* its key up before then and finds it still in the cache is a hit (and
\* returns the value, when there is one, without a request); a call that
\* looks it up at s + cache_ttl or later is a miss and goes on to the rate
\* limiter and the network.
ExpiresAtTtl ==
  [][\A c \in Callers :
       /\ (calls[c].pc = "sending" /\ calls'[c].pc = "done"
           /\ calls'[c].result.kind = "ok" /\ UsesCache(calls[c])) =>
            Holds(cache', calls[c].key, calls'[c].result.value, now + CacheTtl)
       /\ (/\ calls[c].pc \in {"idle", "done"} /\ ncalls' = ncalls + 1
           /\ calls'[c] # calls[c] /\ UsesCache(calls'[c])
           /\ CacheIndex(cache.entries, calls'[c].key) # 0) =>
            LET e == cache.entries[CacheIndex(cache.entries, calls'[c].key)]
            IN IF now < e.expires_at
               THEN /\ cache'.hits = cache.hits + 1
                    /\ e.value # None =>
                         /\ calls'[c].pc = "done" /\ calls'[c].result = Ok(e.value)
                         /\ net_calls' = net_calls
               ELSE /\ cache'.misses = cache.misses + 1
                    /\ calls'[c].pc \in {"wait_lock", "sleeping", "sending"}
                    /\ calls'[c].pc = "sending" => net_calls' = net_calls + 1]_vars

\* C15 witness: a call looked its key up at the very instant the entry
\* expired, missed, and has its request on the wire; the expired entry is
\* still in the cache.
ExpiresAtTtlWitness ==
  /\ calls[1].pc = "sending" /\ UsesCache(calls[1]) /\ calls[1].wake_at = 0
  /\ CacheIndex(cache.entries, calls[1].key) # 0
  /\ cache.entries[CacheIndex(cache.entries, calls[1].key)].expires_at
       = last_request_time
  /\ cache.hits >= 1

\* ------------------------------------------------------------------------
\* The limiter's critical section
\* ------------------------------------------------------------------------
\* task c is suspended inside `async with self._rate_lock`
InGate(c) == calls[c].pc = "sleeping"

\* C20: at most one call is inside the limiter's critical section, and the
\* one that sleeps there holds the lock; _last_request_time never decreases,
\* and it is written only by a task that holds the lock (held from before
\* the step, or taken in it when free) and that lets it go with the write.
LimiterExclusive ==
  /\ [](/\ \A c, d \in Callers : (InGate(c) /\ InGate(d)) => c = d
        /\ \A c \in Callers : InGate(c) <=> rate_lock = c)
  /\ [][/\ last_request_time' >= last_request_time
         /\ last_request_time' # last_request_time =>
              \E c \in Callers :
                /\ calls'[c].passes = calls[c].passes + 1
                     \/ (calls[c].pc \in {"idle", "done"} /\ calls'[c].passes = 1)
                /\ \/ rate_lock = c
                   \/ /\ rate_lock = Unlocked
                      /\ waiters = <<>> \/ Head(waiters) = c
                /\ rate_lock' = Unlocked]_vars

\* C20 witness: task 1 sleeps inside the critical section of a limiter that
\* has been through before, holding the lock, while task 2 waits for it.
LimiterExclusiveWitness ==
  /\ InGate(1) /\ rate_lock = 1 /\ now < calls[1].wake_at
  /\ calls[2].pc = "wait_lock" /\ waiters = <<2>>
  /\ last_request_time > 0

\* ------------------------------------------------------------------------
\* The tools: errors, validation, sizes, lookups
\* ------------------------------------------------------------------------
\* the value of the param called name in the dict params
RECURSIVE ParamValue(_, _)
ParamValue(params, name) ==
  IF Head(params)[1] = name THEN Head(params)[2] ELSE ParamValue(Tail(params), name)

InvalidInput(t) ==
  CASE t.name = "search_papers" -> t.option \notin SearchSorts
    [] t.name = "get_paper_details" ->
         IF t.inspire_id # None THEN ~NormalizeInspireId(t.inspire_id).ok
         ELSE IF t.arxiv_id # None THEN ~NormalizeArxivId(t.arxiv_id).ok
         ELSE IF t.doi # None THEN ~NormalizeDoi(t.doi).ok
         ELSE TRUE
    [] t.name = "get_author_papers" ->
         (t.author_name = None /\ t.author_id = None) \/ t.option \notin ListSorts
    [] t.name = "get_citations" ->
         t.option \notin Directions \/ ~NormalizeInspireId(t.inspire_id).ok
    [] t.name = "search_by_collaboration" -> t.option \notin ListSorts
    [] t.name = "get_references" ->
         t.option \notin Formats \/ ~NormalizeInspireId(t.inspire_id).ok
    [] OTHER -> FALSE

DocumentedMax(name) == IF name = "get_citations" THEN 250 ELSE 100

\* C18: the size a tool sends with its literature search is the requested
\* size clamped to the tool's documented range: 1 below 1, the upper end
\* above it, the request itself in between.
SizeSentIsClamped ==
  [][(/\ ncalls' = ncalls + 1
      /\ tool'.pc = "awaiting" /\ tool'.stage = "search"
      /\ tool'.name \in {"search_papers", "get_author_papers", "get_citations",
                         "search_by_collaboration"}) =>
       ParamValue(calls'[1].params, "size") =
         IF tool'.size < 1 THEN 1
         ELSE IF tool'.size > DocumentedMax(tool'.name)
              THEN DocumentedMax(tool'.name)
              ELSE tool'.size]_vars

\* get_paper_details has returned from an invocation with some identifier
DetailsReturned ==
  /\ tool.pc = "returned" /\ tool.name = "get_paper_details"
  /\ tool.inspire_id # None \/ tool.arxiv_id # None \/ tool.doi # None

\* the invocation made one client lookup, by inspire_id if given, else by
\* arxiv_id if given, else by doi; if that lookup ended in NotFoundError the
\* payload is the error naming the identifier as the caller gave it
OneLookupByPriority ==
  /\ tool.lookups = 1
  /\ calls[1].path =
       IF tool.inspire_id # None
       THEN PathTo("/literature/", NormalizeInspireId(tool.inspire_id).value)
       ELSE IF tool.arxiv_id # None
       THEN PathTo("/arxiv/", NormalizeArxivId(tool.arxiv_id).value)
       ELSE PathTo("/doi/", NormalizeDoi(tool.doi).value)
  /\ calls[1].result.kind = "NotFoundError" =>
       tool.payload = ErrorPayload(NotFoundError("paper",
         (IF tool.inspire_id # None THEN tool.inspire_id
          ELSE IF tool.arxiv_id # None THEN tool.arxiv_id ELSE tool.doi).s))

\* C19 as stated: get_paper_details given any non-empty combination of
\* identifiers makes exactly one lookup, chosen by priority inspire_id, then
\* arxiv_id, then doi, and on NotFoundError returns the error payload naming
\* the identifier the caller supplied.
DetailsLooksUpOnce == DetailsReturned => OneLookupByPriority

\* C19 amended: the same, for the combinations whose first given identifier
\* (in that priority) is well-formed; when it is malformed the tool makes no
\* lookup at all.
DetailsLooksUpOnceIfWellFormed ==
  DetailsReturned =>
    IF InvalidInput(tool) THEN tool.lookups = 0 /\ tool.payload.t = "error"
    ELSE OneLookupByPriority

\* C19 witness: given an arXiv identifier and a DOI and no inspire_id, the
\* tool looked the normalised arXiv identifier up, upstream said 404, and
\* the payload names the arXiv identifier as supplied.
DetailsLooksUpOnceWitness ==
  /\ DetailsReturned
  /\ tool.inspire_id = None /\ tool.arxiv_id = PyStr("arXiv:2301.1")
  /\ tool.doi = PyStr("10.1/x")
  /\ tool.lookups = 1 /\ calls[1].path = "/arxiv/2301.1"
  /\ calls[1].result.kind = "NotFoundError"
  /\ tool.payload = ErrorPayload(NotFoundError("paper", "arXiv:2301.1"))

\* ------------------------------------------------------------------------
\* Progress and order within a call
\* ------------------------------------------------------------------------
\* task c is in _wait_for_rate_limit: queued on the lock or asleep under it
InLimiter(c) == calls[c].pc \in {"wait_lock", "sleeping"}

\* C21: under fair scheduling every call that is in the rate limiter leaves
\* it, and a held lock is released; a call leaves the limiter only by
\* passing it (the write of _last_request_time and the release of the
\* lock), never by an error of the limiter.
LimiterProgress ==
  /\ \A c \in Callers : InLimiter(c) ~> ~InLimiter(c)
  /\ (rate_lock # Unlocked) ~> (rate_lock = Unlocked)
  /\ [][\A c \in Callers :
          (InLimiter(c) /\ ~InLimiter(c)') =>
            /\ calls'[c].passes = calls[c].passes + 1
            /\ last_request_time' = now /\ rate_lock' = Unlocked
            /\ calls'[c].pc = "sending" \/ calls'[c].result = RuntimeError]_vars

\* C21 witness: task 2 has left the limiter, having queued on the lock
\* behind task 1 and then slept under it, and the lock is free again.
LimiterProgressWitness ==
  /\ calls[2].pc = "sending" /\ calls[2].passes = 1 /\ calls[2].wake_at > 0
  /\ calls[1].passes >= 1 /\ calls[1].wake_at > 0
  /\ starts[Len(starts)] = calls[2].wake_at
  /\ Len(starts) >= 2
  /\ rate_lock = Unlocked /\ waiters = <<>>

\* this step starts a call of task c
CallStarts(c) ==
  calls[c].pc \in {"idle", "done"} /\ ncalls' = ncalls + 1 /\ calls'[c] # calls[c]

\* this step hands a request of task c to client.request
Issues(c) == calls'[c].pc = "sending" /\ calls[c].pc # "sending"

\* C22: the steps of a call come in the order cache check, limiter pass,
\* session, request, classification, cache write.  A request is issued only
\* in the step that completes the call's one pass of the limiter, on the
\* session _get_client hands out, by a call whose cache check missed or was
\* skipped; a call that hit issues none; a result other than a hit, and any
\* write of the cache, comes only with the answer to the request.
StepsInOrder ==
  [][/\ \A c \in Callers :
          /\ Issues(c) =>
               /\ calls'[c].passes = 1 /\ calls'[c].attempts = 1
               /\ last_request_time' = now /\ starts' = Append(starts, now)
               /\ net_calls' = net_calls + 1
               /\ calls'[c].session = client' /\ client' # NoClient
               /\ ~IsClosed(sessions', client')
               /\ CallStarts(c) =>
                    IF UsesCache(calls'[c])
                    THEN cache'.misses = cache.misses + 1 /\ cache'.hits = cache.hits
                    ELSE cache' = cache
          /\ (CallStarts(c) /\ cache'.hits = cache.hits + 1
              /\ calls'[c].result # Ok(None)) =>
               calls'[c].pc = "done" /\ calls'[c].attempts = 0 /\ net_calls' = net_calls
          /\ (calls'[c].out # calls[c].out /\ calls'[c].out # NoOutcome) =>
               calls[c].pc = "sending" /\ calls'[c].pc = "done"
          /\ (calls[c].pc = "sending" /\ calls'[c].pc = "done") =>
               calls'[c].result = Classify(calls[c].flavor, calls[c].path, calls'[c].out)
     /\ (net_calls' # net_calls) => \E d \in Callers : Issues(d)
     /\ (Keys(cache') # Keys(cache) /\ Len(cache'.entries) >= Len(cache.entries)) =>
          \E d \in Callers :
            /\ calls[d].pc = "sending" /\ calls'[d].pc = "done"
            /\ calls'[d].result.kind = "ok"]_vars

\* C22 witness: a call that looked the cache up and missed, queued and slept
\* in the limiter, has passed it and has its request on the wire.
StepsInOrderWitness ==
  \E c \in Callers :
    /\ calls[c].pc = "sending" /\ UsesCache(calls[c])
    /\ calls[c].passes = 1 /\ calls[c].wake_at > 0
    /\ cache.misses >= 2 /\ net_calls >= 2

\* the values the cache holds under a key
ValuesAt(ch, key) ==
  {ch.entries[i].value : i \in {j \in 1..Len(ch.entries) : ch.entries[j].key = key}}

\* C23: calls for one key that all miss and all succeed leave, for that key,
\* the value of the call whose response was processed last.  Whenever the
\* answer to a call is processed with success, the cache then holds under the
\* call's key exactly one entry, with the value that call returns and the
\* expiry counted from that instant; no other step changes the value held
\* under a key that stays; and no key ever has more than one entry.
LastWriteWins ==
  [][/\ \A c \in Callers :
          (calls[c].pc = "sending" /\ calls'[c].pc = "done"
           /\ calls'[c].result.kind = "ok") =>
            /\ Holds(cache', calls[c].key, calls'[c].result.value, now + CacheTtl)
            /\ \A k \in Range(Keys(cache)) \cap Range(Keys(cache')) :
                 k # calls[c].key => ValuesAt(cache', k) = ValuesAt(cache, k)
     /\ (\A c \in Callers : ~(calls[c].pc = "sending" /\ calls'[c].pc = "done")) =>
          \A k \in Range(Keys(cache)) \cap Range(Keys(cache')) :
            ValuesAt(cache', k) = ValuesAt(cache, k)
     /\ \A i, j \in 1..Len(cache'.entries) :
          cache'.entries[i].key = cache'.entries[j].key => i = j]_vars

\* C23 witness: both tasks missed on the same key, both were answered with
\* success and different values, both have finished, and the one entry of
\* the key has the value of task 1, whose request started first and whose
\* answer came last.
LastWriteWinsWitness ==
  /\ calls[1].pc = "done" /\ calls[2].pc = "done"
  /\ calls[1].key = calls[2].key
  /\ calls[1].attempts = 1 /\ calls[2].attempts = 1
  /\ calls[1].result.kind = "ok" /\ calls[2].result.kind = "ok"
  /\ calls[1].result # calls[2].result
  /\ ncalls = 2 /\ net_calls = 2 /\ cache.misses = 2
  /\ Len(cache.entries) = 1
  /\ cache.entries[1].key = calls[1].key
  /\ cache.entries[1].value = calls[1].result.value
  /\ starts[1] < starts[2] /\ calls[1].wake_at = 0 /\ calls[2].wake_at > 0

\* C24: a call returns a value from an answer, and writes the cache, only
\* when the status of the answer is in 200..299; an answer with any other
\* status ends the call with an error of the taxonomy.
ReturnsOn2xxOnly ==
  [][\A c \in Callers :
       (calls[c].pc = "sending" /\ calls'[c].pc = "done") =>
         LET out == calls'[c].out
             is2xx == out.t = "response" /\ out.status_code \in 200..299
         IN /\ (calls'[c].result.kind = "ok" \/ cache' # cache) => is2xx
            /\ (out.t = "response" /\ ~is2xx) => calls'[c].result.kind \in Taxonomy]_vars
\* the call of task c is past its cache lookup and has not ended
InFlight(c) == calls[c].pc \in {"wait_lock", "sleeping", "sending"}

ConsultsCacheOnce ==
  [][/\ ncalls' = ncalls + 1 =>
          \E c \in Callers :
            /\ calls[c].pc \in {"idle", "done"}
            /\ \A d \in Callers \ {c} : calls'[d] = calls[d]
            /\ cache'.hits + cache'.misses =
                 cache.hits + cache.misses + (IF UsesCache(calls'[c]) THEN 1 ELSE 0)
     /\ ncalls' = ncalls =>
          cache'.hits = cache.hits /\ cache'.misses = cache.misses
     /\ \A c \in Callers :
          /\ (InLimiter(c) /\ calls'[c].pc \notin {"wait_lock", "sleeping"}) =>
               /\ Issues(c) /\ calls'[c].attempts = 1
               /\ net_calls' = net_calls + 1
               /\ cache' = cache
          /\ (calls[c].pc = "sending" /\ calls'[c].pc = "done") =>
               calls'[c].attempts = 1]_vars

\* C26 witness: two calls for one key both missed; while task 2 waited in
\* the limiter the answer to task 1 was stored, and task 2 has left the
\* limiter with that entry live and has its own request on the wire: the
\* second request for the key.
ConsultsCacheOnceWitness ==
  /\ ncalls = 2 /\ cache.misses = 2 /\ cache.hits = 0
  /\ calls[1].key = calls[2].key /\ UsesCache(calls[1]) /\ UsesCache(calls[2])
  /\ calls[1].pc = "done" /\ calls[1].result.kind = "ok" /\ calls[1].attempts = 1
  /\ calls[2].pc = "sending" /\ calls[2].wake_at > 0
  /\ CacheLive(cache, calls[2].key, now)
  /\ Len(cache.entries) = 1
  /\ cache.entries[1].expires_at - CacheTtl < starts[2]
  /\ net_calls = 2

\* C27: a get with use_cache false neither reads nor writes the cache.  Its
\* first step leaves the cache as it is and takes the call into the limiter,
\* also when a live entry has its key; no step changes the cache while the
\* call runs, its successful answer included; and it ends only with the
\* answer to the one request it made after its one pass of the limiter.
UncachedGetSkipsCache ==
  [][\A c \in Callers :
       /\ (CallStarts(c) /\ ~UsesCache(calls'[c])) =>
            /\ cache' = cache
            /\ calls'[c].pc \in {"wait_lock", "sleeping", "sending"}
       /\ (InFlight(c) /\ ~UsesCache(calls[c])) =>
            /\ cache' = cache
            /\ calls'[c].pc = "done" =>
                 /\ calls[c].pc = "sending"
                 /\ calls'[c].passes = 1 /\ calls'[c].attempts = 1
                 /\ calls'[c].out # NoOutcome]_vars

\* C27 witness: a get with use_cache false found a live entry under its
\* key, made its request all the same and returned the null it was answered
\* with; the entry still has the value an earlier call stored, and the
\* counters show that call's miss alone.
UncachedGetSkipsCacheWitness ==
  /\ calls[1].pc = "done" /\ calls[1].flavor = "get" /\ ~calls[1].use_cache
  /\ calls[1].result = Ok(None) /\ calls[1].attempts = 1 /\ calls[1].wake_at > 0
  /\ ncalls = 2 /\ net_calls = 2
  /\ CacheLive(cache, calls[1].key, now)
  /\ Len(cache.entries) = 1 /\ cache.entries[1].value # None
  /\ cache.entries[1].expires_at - CacheTtl = starts[1]
  /\ cache.hits = 0 /\ cache.misses = 1

====
